---- MODULE Spec2Model ----
(***************************************************************************)
(* Model of the fast_container crate: the generation-checking container    *)
(* StableIndexVec (src/src/lib.rs) and the non-checking container          *)
(* FastContainer (src/src/main.rs).                                        *)
(*                                                                         *)
(* A Rust Vec is a TLA+ sequence; the Rust index i is the sequence index   *)
(* i + 1.  Option<T> is a sequence of length at most one: None is << >>    *)
(* and Some(x) is << x >>.                                                 *)
(***************************************************************************)
EXTENDS Integers, Sequences, FiniteSets, Bags, TLC

\* ---------------------------------------------------------------- bounds
\* index.len() never grows past MaxSlots in the explored behaviours.
MaxSlots == 3
\* add is called at most MaxAdds times in the explored behaviours.
MaxAdds == 5

\* the elements handed to add
Elems == {"a", "b"}

VARIABLES
    variant,    \* which container the behaviour exercises: "siv" or "fc"
    siv,        \* the StableIndexVec: [index, generations, ids, data]
    fc,         \* the FastContainer: [index, ids, data]
    iter,       \* the open Iter over siv, None when there is none
    yielded,    \* the items the open Iter has produced so far
    panicked,   \* TRUE once an assert! or an index out of bounds has fired
    last,       \* the last call made: its name, argument and result
    live,       \* [h, el]: h was returned by add(el), remove(h) not called since
    issued,     \* every handle add has returned so far
    removed,    \* every handle for which remove returned an element
    nAdds,      \* number of calls of add so far
    nRemoves,   \* number of calls of remove that returned an element
    runRemoved, \* slots freed by the latest run of successful removes
    runAdded,   \* [h, el] of the adds made since that run, in order
    freed       \* the slots freed and not handed out again, oldest first

vars == << variant, siv, fc, iter, yielded, panicked, last, live, issued, removed,
           nAdds, nRemoves, runRemoved, runAdded, freed >>

\* ------------------------------------------------------- Vec and Option
None == << >>
Some(x) == << x >>

\* v[i]
At(v, i) == v[i + 1]

\* Vec::get
VecGet(v, i) == IF i < Len(v) THEN Some(At(v, i)) ELSE None

\* v[i] = x
VecSet(v, i, x) == [v EXCEPT ![i + 1] = x]

\* Vec::swap
VecSwap(v, a, b) == [v EXCEPT ![a + 1] = v[b + 1], ![b + 1] = v[a + 1]]

\* the Vec after Vec::pop
VecPopped(v) == SubSeq(v, 1, Len(v) - 1)

\* ------------------------------------------------------- StableIndexVec
\* SIVKey::new
SIVKey(id, generation) == [id |-> id, generation |-> generation]

\* StableIndexVec::new
SIV_new == [index |-> << >>, generations |-> << >>, ids |-> << >>, data |-> << >>]

\* data_index without the comparison of generations
SIV_data_index_any_generation(c, key) ==
    VecGet(c.index, key.id)

\* StableIndexVec::data_index
SIV_data_index(c, key) ==
    LET data_index == VecGet(c.index, key.id) IN
    IF data_index = None THEN None
    ELSE LET generation == VecGet(c.generations, data_index[1]) IN
         IF generation # None /\ generation[1] = key.generation
         THEN Some(data_index[1])
         ELSE None

\* StableIndexVec::len
SIV_len(c) == Len(c.data)

\* StableIndexVec::get
SIV_get(c, key) ==
    LET data_index == SIV_data_index(c, key) IN
    IF data_index = None THEN None ELSE VecGet(c.data, data_index[1])

\* the reused row keeps its generation
SIV_reuse_same_generation(c, data_len) == c

\* the else branch of StableIndexVec::add, `self.generations[data_len] += 1`
SIV_reuse(c, data_len) ==
    [c EXCEPT !.generations = VecSet(@, data_len, At(@, data_len) + 1)]

\* StableIndexVec::add: the container after the call, the key returned, and
\* whether the assert! or an index expression panicked.
SIV_add(c, el) ==
    LET index_len == Len(c.index)
        data_len == Len(c.data)
    IN
    IF ~(data_len <= index_len)
    THEN [c |-> c, key |-> None, panic |-> TRUE]
    ELSE IF data_len # index_len /\ data_len >= Len(c.generations)
    THEN [c |-> c, key |-> None, panic |-> TRUE]
    ELSE
      LET c1 == IF data_len = index_len
                THEN [c EXCEPT !.index = Append(@, data_len),
                               !.generations = Append(@, 0),
                               !.ids = Append(@, index_len)]
                ELSE SIV_reuse(c, data_len)
          c2 == [c1 EXCEPT !.data = Append(@, el)]
      IN
      IF data_len >= Len(c2.ids) \/ data_len >= Len(c2.generations)
      THEN [c |-> c2, key |-> None, panic |-> TRUE]
      ELSE [c |-> c2,
            key |-> Some(SIVKey(At(c2.ids, data_len), At(c2.generations, data_len))),
            panic |-> FALSE]

\* the swaps without `self.index[self.ids[data_index]] = data_index`: the slot
\* of the element moved into the hole keeps pointing at the last position
SIV_swap_no_retarget(c, data_index, last_index) ==
    LET data1 == VecSwap(c.data, data_index, last_index)
        gens1 == VecSwap(c.generations, data_index, last_index)
        ids1 == VecSwap(c.ids, data_index, last_index)
        index2 == VecSet(c.index, At(ids1, last_index), last_index)
    IN [index |-> index2, generations |-> gens1, ids |-> ids1, data |-> data1]

\* the swaps without `self.data.swap(data_index, last_index)`
SIV_swap_keep_data(c, data_index, last_index) ==
    LET gens1 == VecSwap(c.generations, data_index, last_index)
        ids1 == VecSwap(c.ids, data_index, last_index)
        index1 == VecSet(c.index, At(ids1, data_index), data_index)
        index2 == VecSet(index1, At(ids1, last_index), last_index)
    IN [index |-> index2, generations |-> gens1, ids |-> ids1, data |-> c.data]

\* the swaps without `self.generations.swap(data_index, last_index)`
SIV_swap_keep_generations(c, data_index, last_index) ==
    LET data1 == VecSwap(c.data, data_index, last_index)
        ids1 == VecSwap(c.ids, data_index, last_index)
        index1 == VecSet(c.index, At(ids1, data_index), data_index)
        index2 == VecSet(index1, At(ids1, last_index), last_index)
    IN [index |-> index2, generations |-> c.generations, ids |-> ids1, data |-> data1]

\* the swaps without `self.index[self.ids[last_index]] = last_index`: the
\* slot of the removed element keeps pointing at the hole
SIV_swap_no_last_fixup(c, data_index, last_index) ==
    LET data1 == VecSwap(c.data, data_index, last_index)
        gens1 == VecSwap(c.generations, data_index, last_index)
        ids1 == VecSwap(c.ids, data_index, last_index)
        index1 == VecSet(c.index, At(ids1, data_index), data_index)
    IN [index |-> index1, generations |-> gens1, ids |-> ids1, data |-> data1]

\* the body of `if data_index < last_index` in StableIndexVec::remove: the
\* three swaps and the two assignments to index
SIV_swap(c, data_index, last_index) ==
    LET data1 == VecSwap(c.data, data_index, last_index)
        gens1 == VecSwap(c.generations, data_index, last_index)
        ids1 == VecSwap(c.ids, data_index, last_index)
        index1 == VecSet(c.index, At(ids1, data_index), data_index)
        index2 == VecSet(index1, At(ids1, last_index), last_index)
    IN [index |-> index2, generations |-> gens1, ids |-> ids1, data |-> data1]

\* whether an index expression of that body is out of bounds
SIV_swap_panics(c, data_index, last_index) ==
    \/ last_index >= Len(c.generations)
    \/ last_index >= Len(c.ids)
    \/ At(c.ids, last_index) >= Len(c.index)
    \/ At(c.ids, data_index) >= Len(c.index)

\* the pop taken from index instead of data
SIV_pop_index_instead(c) == [c EXCEPT !.index = VecPopped(@)]

\* the pop shortening generations along with data
SIV_pop_generations_too(c) ==
    [c EXCEPT !.data = VecPopped(@), !.generations = VecPopped(@)]

\* the container after `self.data.pop()` at the end of StableIndexVec::remove
SIV_pop(c) == [c EXCEPT !.data = VecPopped(@)]

\* StableIndexVec::remove: the container after the call, the value returned,
\* the dense position the element was found at, and whether it panicked.
SIV_remove(c, key) ==
    LET data_index == SIV_data_index(c, key) IN
    IF data_index = None
    THEN [c |-> c, ret |-> None, pos |-> None, panic |-> FALSE]
    ELSE IF VecGet(c.data, data_index[1]) = None
    THEN [c |-> c, ret |-> None, pos |-> None, panic |-> FALSE]
    ELSE
      LET last_index == Len(c.data) - 1 IN
      IF data_index[1] < last_index /\ SIV_swap_panics(c, data_index[1], last_index)
      THEN [c |-> c, ret |-> None, pos |-> data_index, panic |-> TRUE]
      ELSE
        LET c1 == IF data_index[1] < last_index
                  THEN SIV_swap(c, data_index[1], last_index)
                  ELSE c
        IN [c |-> SIV_pop(c1),
            ret |-> Some(At(c1.data, last_index)),
            pos |-> data_index, panic |-> FALSE]

\* StableIndexVec::iter
SIV_iter == [position |-> 0]

\* next() with the end test off by one: the last element is never produced
Iter_next_stops_early(it, c) ==
    IF it.position + 1 >= Len(c.data)
    THEN [it |-> it, item |-> None, panic |-> FALSE]
    ELSE [it |-> [it EXCEPT !.position = @ + 1],
          item |-> Some([key |-> SIVKey(At(c.ids, it.position),
                                        At(c.generations, At(c.ids, it.position))),
                         value |-> At(c.data, it.position)]),
          panic |-> FALSE]

\* Iter::next: the iterator after the call, the item produced, and whether an
\* index expression panicked.
Iter_next(it, c) ==
    IF it.position >= Len(c.data)
    THEN [it |-> it, item |-> None, panic |-> FALSE]
    ELSE
      LET current_pos == it.position
          it1 == [it EXCEPT !.position = @ + 1]
      IN
      IF current_pos >= Len(c.ids)
      THEN [it |-> it1, item |-> None, panic |-> TRUE]
      ELSE
        LET id == At(c.ids, current_pos) IN
        IF id >= Len(c.generations)
        THEN [it |-> it1, item |-> None, panic |-> TRUE]
        ELSE [it |-> it1,
              item |-> Some([key |-> SIVKey(id, At(c.generations, id)),
                             value |-> At(c.data, current_pos)]),
              panic |-> FALSE]

\* -------------------------------------------------------- FastContainer
\* FastContainer::default
FC_default == [index |-> << >>, ids |-> << >>, data |-> << >>]

\* FastContainer::get
FC_get(c, idx) ==
    LET data_index == VecGet(c.index, idx) IN
    IF data_index = None THEN None ELSE VecGet(c.data, data_index[1])

\* add returning the dense position instead of `self.ids[data_len]`
FC_add_returns_position(c, el) ==
    LET index_len == Len(c.index)
        data_len == Len(c.data)
        c1 == IF data_len = index_len
              THEN [c EXCEPT !.index = Append(@, index_len),
                             !.ids = Append(@, index_len)]
              ELSE c
    IN [c |-> [c1 EXCEPT !.data = Append(@, el)], key |-> Some(data_len),
        panic |-> FALSE]

\* add without the test `data_len == index_len`: a slot is allocated by
\* every call
FC_add_always_allocates(c, el) ==
    LET index_len == Len(c.index)
        data_len == Len(c.data)
        c1 == [c EXCEPT !.index = Append(@, index_len),
                        !.ids = Append(@, index_len)]
    IN [c |-> [c1 EXCEPT !.data = Append(@, el)],
        key |-> Some(At(c1.ids, data_len)), panic |-> FALSE]

\* add handing out the slot of the last row, `self.ids[self.ids.len() - 1]`,
\* the slot that has been free the longest
FC_add_reuses_oldest(c, el) ==
    LET index_len == Len(c.index)
        data_len == Len(c.data)
        c1 == IF data_len = index_len
              THEN [c EXCEPT !.index = Append(@, index_len),
                             !.ids = Append(@, index_len)]
              ELSE c
    IN [c |-> [c1 EXCEPT !.data = Append(@, el)],
        key |-> Some(At(c1.ids, Len(c1.ids) - 1)), panic |-> FALSE]

\* FastContainer::add
FC_add(c, el) ==
    LET index_len == Len(c.index)
        data_len == Len(c.data)
    IN
    IF ~(data_len <= index_len)
    THEN [c |-> c, key |-> None, panic |-> TRUE]
    ELSE
      LET c1 == IF data_len = index_len
                THEN [c EXCEPT !.index = Append(@, index_len),
                               !.ids = Append(@, index_len)]
                ELSE c
          c2 == [c1 EXCEPT !.data = Append(@, el)]
      IN
      IF data_len >= Len(c2.ids)
      THEN [c |-> c2, key |-> None, panic |-> TRUE]
      ELSE [c |-> c2, key |-> Some(At(c2.ids, data_len)), panic |-> FALSE]

\* the swaps without `self.index[self.ids[data_index]] = data_index`
FC_swap_no_retarget(c, data_index, last_index) ==
    LET data1 == VecSwap(c.data, data_index, last_index)
        ids1 == VecSwap(c.ids, data_index, last_index)
        index2 == VecSet(c.index, At(ids1, last_index), last_index)
    IN [index |-> index2, ids |-> ids1, data |-> data1]

\* the body of `if data_index < last_index` in FastContainer::remove
FC_swap(c, data_index, last_index) ==
    LET data1 == VecSwap(c.data, data_index, last_index)
        ids1 == VecSwap(c.ids, data_index, last_index)
        index1 == VecSet(c.index, At(ids1, data_index), data_index)
        index2 == VecSet(index1, At(ids1, last_index), last_index)
    IN [index |-> index2, ids |-> ids1, data |-> data1]

\* whether an index expression of that body is out of bounds
FC_swap_panics(c, data_index, last_index) ==
    \/ last_index >= Len(c.ids)
    \/ At(c.ids, last_index) >= Len(c.index)
    \/ At(c.ids, data_index) >= Len(c.index)

\* the pop shortening ids along with data
FC_pop_ids_too(c) == [c EXCEPT !.data = VecPopped(@), !.ids = VecPopped(@)]

\* the container after `self.data.pop()` at the end of FastContainer::remove
FC_pop(c) == [c EXCEPT !.data = VecPopped(@)]

\* remove without `self.data.get(data_index)?`: a free slot is not rejected
FC_remove_unchecked(c, idx) ==
    LET data_index == VecGet(c.index, idx) IN
    IF data_index = None
    THEN [c |-> c, ret |-> None, pos |-> None, panic |-> FALSE]
    ELSE IF c.data = << >>
    THEN [c |-> c, ret |-> None, pos |-> None, panic |-> TRUE]
    ELSE
      LET last_index == Len(c.data) - 1
          c1 == IF data_index[1] < last_index
                THEN FC_swap(c, data_index[1], last_index)
                ELSE c
      IN [c |-> [c1 EXCEPT !.data = VecPopped(@)],
          ret |-> Some(At(c1.data, last_index)),
          pos |-> data_index, panic |-> FALSE]

\* FastContainer::remove: the container after the call, the value returned,
\* the dense position the element was found at, and whether it panicked.
FC_remove(c, idx) ==
    LET data_index == VecGet(c.index, idx) IN
    IF data_index = None
    THEN [c |-> c, ret |-> None, pos |-> None, panic |-> FALSE]
    ELSE IF VecGet(c.data, data_index[1]) = None
    THEN [c |-> c, ret |-> None, pos |-> None, panic |-> FALSE]
    ELSE
      LET last_index == Len(c.data) - 1 IN
      IF data_index[1] < last_index /\ FC_swap_panics(c, data_index[1], last_index)
      THEN [c |-> c, ret |-> None, pos |-> data_index, panic |-> TRUE]
      ELSE
        LET c1 == IF data_index[1] < last_index
                  THEN FC_swap(c, data_index[1], last_index)
                  ELSE c
        IN [c |-> FC_pop(c1),
            ret |-> Some(At(c1.data, last_index)),
            pos |-> data_index, panic |-> FALSE]

\* ------------------------------------------------------------ the calls
\* the keys a caller may hold or forge: for every allocated slot, every
\* generation add has issued for it and the next one, not issued yet; and a
\* key for a slot that was never allocated
SIVKeys ==
    UNION {{SIVKey(id, generation) :
               generation \in 0..(At(siv.generations, At(siv.index, id)) + 1)} :
           id \in 0..(Len(siv.index) - 1)}
    \cup {SIVKey(Len(siv.index), 0)}
\* every slot allocated and one never allocated
FCKeys == 0..Len(fc.index)

\* seq without the entries equal to x
Without(seq, x) == SelectSeq(seq, LAMBDA s : s # x)

Init ==
    /\ variant \in {"siv", "fc"}
    /\ siv = SIV_new
    /\ fc = FC_default
    /\ iter = None
    /\ yielded = << >>
    /\ panicked = FALSE
    /\ last = [op |-> "new"]
    /\ live = {}
    /\ issued = {}
    /\ removed = {}
    /\ nAdds = 0
    /\ nRemoves = 0
    /\ runRemoved = {}
    /\ runAdded = << >>
    /\ freed = << >>

Panic ==
    /\ panicked' = TRUE
    /\ UNCHANGED << variant, siv, fc, iter, yielded, last, live, issued, removed,
                    nAdds, nRemoves, runRemoved, runAdded, freed >>

\* container.add(el) on the StableIndexVec
SIVAdd ==
    /\ variant = "siv" /\ ~panicked /\ iter = None
    /\ nAdds < MaxAdds
    /\ Len(siv.data) = Len(siv.index) => Len(siv.index) < MaxSlots
    /\ \E el \in Elems :
         LET r == SIV_add(siv, el) IN
         IF r.panic THEN Panic
         ELSE /\ siv' = r.c
              /\ last' = [op |-> "add", el |-> el, key |-> r.key[1]]
              /\ live' = live \cup {[h |-> r.key[1], el |-> el]}
              /\ issued' = issued \cup {r.key[1]}
              /\ nAdds' = nAdds + 1
              /\ UNCHANGED nRemoves
              /\ freed' = Without(freed, r.key[1].id)
              /\ UNCHANGED << variant, fc, iter, yielded, panicked, removed,
                              runRemoved, runAdded >>

\* container.remove(key) on the StableIndexVec
SIVRemove ==
    /\ variant = "siv" /\ ~panicked /\ iter = None
    /\ \E key \in SIVKeys :
         LET r == SIV_remove(siv, key) IN
         IF r.panic THEN Panic
         ELSE /\ siv' = r.c
              /\ last' = [op |-> "remove", key |-> key, ret |-> r.ret, pos |-> r.pos]
              /\ live' = {l \in live : l.h # key}
              /\ removed' = IF r.ret # None THEN removed \cup {key} ELSE removed
              /\ nRemoves' = IF r.ret # None THEN nRemoves + 1 ELSE nRemoves
              /\ UNCHANGED nAdds
              /\ freed' = IF r.ret # None THEN Append(freed, key.id) ELSE freed
              /\ UNCHANGED << variant, fc, iter, yielded, panicked, issued,
                              runRemoved, runAdded >>

\* container.get(key) on the StableIndexVec.  get takes &self and changes
\* nothing, so the calls made while an Iter is open are the calls made
\* before it was opened; the model makes them between traversals.
SIVGet ==
    /\ variant = "siv" /\ ~panicked /\ iter = None
    /\ \E key \in SIVKeys :
         /\ last' = [op |-> "get", key |-> key, ret |-> SIV_get(siv, key)]
         /\ UNCHANGED << variant, siv, fc, iter, yielded, panicked, live, issued,
                         removed, nAdds, nRemoves, runRemoved, runAdded, freed >>

\* container.iter(): the Iter borrows the container, which add and remove
\* cannot touch until the Iter is gone
IterOpen ==
    /\ variant = "siv" /\ ~panicked /\ iter = None
    /\ iter' = Some(SIV_iter)
    /\ yielded' = << >>
    /\ last' = [op |-> "iter"]
    /\ UNCHANGED << variant, siv, fc, panicked, live, issued, removed,
                    nAdds, nRemoves, runRemoved, runAdded, freed >>

\* one call of next() on the open Iter; the traversal ends when it returns None
IterNext ==
    /\ variant = "siv" /\ ~panicked /\ iter # None
    /\ LET r == Iter_next(iter[1], siv) IN
       IF r.panic THEN Panic
       ELSE /\ IF r.item = None
               THEN /\ iter' = None
                    /\ yielded' = << >>
                    /\ last' = [op |-> "collect", ret |-> yielded]
               ELSE /\ iter' = Some(r.it)
                    /\ yielded' = Append(yielded, r.item[1])
                    /\ last' = [op |-> "next"]
            /\ UNCHANGED << variant, siv, fc, panicked, live, issued, removed,
                            nAdds, nRemoves, runRemoved, runAdded, freed >>

\* the Iter is dropped before it is exhausted (take(n), or a single next())
IterDrop ==
    /\ variant = "siv" /\ ~panicked /\ iter # None
    /\ iter' = None
    /\ yielded' = << >>
    /\ last' = [op |-> "take", ret |-> yielded]
    /\ UNCHANGED << variant, siv, fc, panicked, live, issued, removed,
                    nAdds, nRemoves, runRemoved, runAdded, freed >>

\* container.add(el) on the FastContainer
FCAdd ==
    /\ variant = "fc" /\ ~panicked
    /\ nAdds < MaxAdds
    /\ Len(fc.data) = Len(fc.index) => Len(fc.index) < MaxSlots
    /\ \E el \in Elems :
         LET r == FC_add(fc, el) IN
         IF r.panic THEN Panic
         ELSE /\ fc' = r.c
              /\ last' = [op |-> "add", el |-> el, key |-> r.key[1]]
              /\ live' = live \cup {[h |-> r.key[1], el |-> el]}
              /\ issued' = issued \cup {r.key[1]}
              /\ nAdds' = nAdds + 1
              /\ UNCHANGED nRemoves
              /\ runAdded' = Append(runAdded, [h |-> r.key[1], el |-> el])
              /\ freed' = Without(freed, r.key[1])
              /\ UNCHANGED << variant, siv, iter, yielded, panicked, removed,
                              runRemoved >>

\* container.remove(idx) on the FastContainer
FCRemove ==
    /\ variant = "fc" /\ ~panicked
    /\ \E idx \in FCKeys :
         LET r == FC_remove(fc, idx) IN
         IF r.panic THEN Panic
         ELSE /\ fc' = r.c
              /\ last' = [op |-> "remove", key |-> idx, ret |-> r.ret, pos |-> r.pos]
              /\ live' = {l \in live : l.h # idx}
              /\ removed' = IF r.ret # None THEN removed \cup {idx} ELSE removed
              /\ nRemoves' = IF r.ret # None THEN nRemoves + 1 ELSE nRemoves
              /\ UNCHANGED nAdds
              /\ IF r.ret = None
                 THEN UNCHANGED << runRemoved, runAdded >>
                 ELSE /\ runRemoved' = IF runAdded = << >> THEN runRemoved \cup {idx}
                                       ELSE {idx}
                      /\ runAdded' = << >>
              /\ freed' = IF r.ret # None THEN Append(freed, idx) ELSE freed
              /\ UNCHANGED << variant, siv, iter, yielded, panicked, issued >>

\* container.get(idx) on the FastContainer
FCGet ==
    /\ variant = "fc" /\ ~panicked
    /\ \E idx \in FCKeys :
         /\ last' = [op |-> "get", key |-> idx, ret |-> FC_get(fc, idx)]
         /\ UNCHANGED << variant, siv, fc, iter, yielded, panicked, live, issued,
                         removed, nAdds, nRemoves, runRemoved, runAdded, freed >>

Next ==
    \/ SIVAdd
    \/ SIVRemove
    \/ SIVGet
    \/ IterOpen
    \/ IterNext
    \/ IterDrop
    \/ FCAdd
    \/ FCRemove
    \/ FCGet

Spec == Init /\ [][Next]_vars

\* ---------------------------------------------------------- the claims
\* get on the container the behaviour exercises
Get(s, f, h) == IF variant = "siv" THEN SIV_get(s, h) ELSE FC_get(f, h)

\* the keys a caller may pass to it
Keys == IF variant = "siv" THEN SIVKeys ELSE FCKeys

\* the dense array of the container the behaviour exercises
Data == IF variant = "siv" THEN siv.data ELSE fc.data

\* C1: in both variants a handle h returned by add(e) satisfies
\* get(h) = Some(e) in every state from that add until remove(h) is called,
\* whatever adds and removes of other handles happen in between.
C1_HandleValidUntilRemoved ==
    \A l \in live : Get(siv, fc, l.h) = Some(l.el)

\* a handle is still live after another handle was removed and its element
\* was moved to another dense position by that removal
C1_Witness ==
    /\ variant = "siv"
    /\ removed # {}
    /\ \E l \in live : At(siv.index, l.h.id) # l.h.id

\* the step is a call of remove that returned an element
RemoveSucceeds ==
    /\ nRemoves' = nRemoves + 1
    /\ last'.op = "remove"

\* C2: in both variants, for two distinct live handles h1 # h2, a successful
\* remove(h2) leaves get(h1) returning the same element as before the call,
\* wherever h2's element sits in the dense array.
C2_StableUnderUnrelatedRemoval ==
    [][RemoveSucceeds =>
         \A h1 \in Keys \ {last'.key} :
            Get(siv, fc, h1) # None => Get(siv', fc', h1) = Get(siv, fc, h1)]_vars

\* a removal from the middle of three elements (dense position 1) has left
\* two live handles behind
C2_Witness ==
    /\ last.op = "remove"
    /\ last.ret # None
    /\ last.pos = Some(1)
    /\ Len(Data) = 2
    /\ Cardinality(live) = 2

\* C3: checking variant: once remove(h) has returned the element of h, get(h)
\* and remove(h) return absent in every later state, also after the slot of h
\* has been reoccupied by a new element.
C3_RemovedHandleStaysAbsent ==
    variant = "siv" =>
        \A h \in removed :
            /\ SIV_get(siv, h) = None
            /\ SIV_remove(siv, h).ret = None

\* the slot of a removed handle is occupied again by a live element
C3_Witness ==
    /\ variant = "siv"
    /\ \E h \in removed : \E l \in live : l.h.id = h.id

\* the handles that add returned and remove has not been called on since
LiveHandles == {l.h : l \in live}

\* C4: checking variant: every (key, value) pair produced by iter()
\* satisfies get(key) = Some(value), so every key produced by keys() satisfies
\* get(key).is_some().
C4_IterItemsMatchGet ==
    variant = "siv" =>
        \A i \in 1..Len(yielded) :
            SIV_get(siv, yielded[i].key) = Some(yielded[i].value)

\* the step is a call of add
AddReturns ==
    /\ nAdds' = nAdds + 1
    /\ last'.op = "add"

\* C5: checking variant: a handle returned by add is never equal, as a
\* (slot, generation) pair, to a handle returned by an earlier add, removed
\* handles whose slot is being reused included.
C5_HandleNeverIssuedTwice ==
    [][AddReturns /\ variant = "siv" => last'.key \notin issued]_vars

\* add has just reused the slot of a removed handle
C5_Witness ==
    /\ variant = "siv"
    /\ last.op = "add"
    /\ \E h \in removed : h.id = last.key.id

\* C6: in both variants remove called with an invalid handle (slot never
\* allocated, slot free, handle already removed, or in the checking variant
\* a generation that is not the slot's current one) returns absent and leaves
\* every array of the container unchanged.
C6_InvalidRemoveIsNoOp ==
    [][last'.op = "remove" /\ last'.key \notin LiveHandles =>
         /\ last'.ret = None
         /\ siv' = siv
         /\ fc' = fc]_vars

\* remove has just been called a second time with a handle it had removed,
\* on a container that still holds elements
C6_Witness ==
    /\ last.op = "remove"
    /\ last.ret = None
    /\ last.key \in removed
    /\ last.key \notin LiveHandles
    /\ Data # << >>

\* C7: in both variants remove(h) on a live handle h returns Some(e), e the
\* element whose add returned h, reduces the number of live elements by
\* exactly 1, and get(h) is absent immediately afterwards.
C7_RemoveReturnsElement ==
    [][last'.op = "remove" =>
         \A l \in live :
            l.h = last'.key =>
               /\ last'.ret = Some(l.el)
               /\ Len(siv'.data) + Len(fc'.data) = Len(siv.data) + Len(fc.data) - 1
               /\ Get(siv', fc', l.h) = None]_vars

\* remove has just returned the element at the first dense position, which
\* the swap moved to the end, and other elements are left
C7_Witness ==
    /\ last.op = "remove"
    /\ last.ret # None
    /\ last.pos = Some(0)
    /\ Len(Data) >= 2

\* C8: non-checking variant: after k live handles are removed and k adds are
\* then made with no removal in between, the set of handles those adds
\* returned is exactly the set of removed slot numbers, and get on each of
\* them returns the newly added element.
C8_FreedSlotsAreReused ==
    variant = "fc" /\ runRemoved # {} /\ Len(runAdded) = Cardinality(runRemoved) =>
        /\ {runAdded[i].h : i \in 1..Len(runAdded)} = runRemoved
        /\ \A i \in 1..Len(runAdded) : FC_get(fc, runAdded[i].h) = Some(runAdded[i].el)

\* two handles were removed and the two adds that followed have returned
C8_Witness ==
    /\ variant = "fc"
    /\ Cardinality(runRemoved) = 2
    /\ Len(runAdded) = 2

\* C9: checking variant: the set of keys produced by keys() is exactly the
\* set of handles that add returned and that have not been removed since.
C9_KeysAreLiveHandles ==
    variant = "siv" /\ last.op = "collect" =>
        {last.ret[i].key : i \in 1..Len(last.ret)} = LiveHandles

\* the values a traversal produced, as a bag
ValuesBag(items) ==
    [e \in {items[i].value : i \in 1..Len(items)} |->
        Cardinality({i \in 1..Len(items) : items[i].value = e})]

\* the elements added and not removed since, as a bag
LiveBag ==
    [e \in {l.el : l \in live} |-> Cardinality({l \in live : l.el = e})]

\* C10: checking variant: a full traversal by iter() produces exactly len()
\* items, len() is the number of adds minus the number of successful removes,
\* and the values produced are exactly the bag of the elements added and not
\* removed since.
C10_IterYieldsLiveElements ==
    variant = "siv" =>
        /\ SIV_len(siv) = nAdds - nRemoves
        /\ last.op = "collect" =>
             /\ Len(last.ret) = SIV_len(siv)
             /\ ValuesBag(last.ret) = LiveBag

\* a full traversal of a container that holds two equal elements and has
\* had an element removed and a slot reused
C10_Witness ==
    /\ variant = "siv"
    /\ last.op = "collect"
    /\ Len(last.ret) = 3
    /\ nRemoves >= 1
    /\ \E e \in Elems :
         Cardinality({i \in 1..Len(last.ret) : last.ret[i].value = e}) = 2

\* the slot table of the container the behaviour exercises
Index == IF variant = "siv" THEN siv.index ELSE fc.index

\* its reverse mapping, dense position to slot
Ids == IF variant = "siv" THEN siv.ids ELSE fc.ids

\* the slot number of a handle
Slot(h) == IF variant = "siv" THEN h.id ELSE h

\* C11: in both variants, after every operation, index[ids[i]] = i for every
\* live dense position i < data.len(), and ids[i] = s for every slot s with
\* index[s] = i < data.len().
C11_RoundTrip ==
    /\ \A i \in 0..(Len(Data) - 1) :
          /\ i < Len(Ids)
          /\ At(Ids, i) < Len(Index)
          /\ At(Index, At(Ids, i)) = i
    /\ \A s \in 0..(Len(Index) - 1) :
          At(Index, s) < Len(Data) => At(Ids, At(Index, s)) = s

\* live elements sit at dense positions other than their slot numbers, next
\* to a freed slot
C11_Witness ==
    /\ Len(Data) >= 2
    /\ Len(Index) > Len(Data)
    /\ \A i \in 0..(Len(Data) - 1) : At(Ids, i) # i

\* C12, as stated: in both variants the reverse mapping ids has the length
\* of the dense data array at all times, data.len() = ids.len().
C12_IdsAsLongAsData ==
    Len(Data) = Len(Ids)

\* C12, amended: ids has the length of the slot table at all times,
\* ids.len() = index.len(), and the dense array is never longer,
\* data.len() <= ids.len(); remove shortens data alone.
C12_IdsAsLongAsIndex ==
    /\ Len(Ids) = Len(Index)
    /\ Len(Data) <= Len(Ids)

\* a remove has returned an element and ids is longer than data
C12_Witness ==
    /\ last.op = "remove"
    /\ last.ret # None
    /\ Len(Ids) > Len(Data)

\* C13: in both variants data.len() <= index.len() in every state reachable
\* through add, get and remove with valid, stale or forged handles, so the
\* assert! at the start of add never fails.
C13_DataNeverLongerThanIndex ==
    /\ Len(siv.data) <= Len(siv.index)
    /\ Len(fc.data) <= Len(fc.index)
    /\ \A el \in Elems : ~SIV_add(siv, el).panic /\ ~FC_add(fc, el).panic

\* a remove with a key that is not a live handle has just been refused on a
\* container whose slots are all occupied
C13_Witness ==
    /\ last.op = "remove"
    /\ last.ret = None
    /\ last.key \notin LiveHandles
    /\ Len(Data) = Len(Index)
    /\ Len(Data) >= 2

\* the greatest member of a set of numbers
Max(S) == CHOOSE m \in S : \A x \in S : x <= m

\* the generation the checking variant holds for slot s
SlotGeneration(c, s) == At(c.generations, At(c.index, s))

\* C14: checking variant: when add reuses a freed slot the generation of the
\* returned handle is exactly 1 greater than the generation of the handle
\* issued latest for that slot; when add allocates a new slot it is 0; and
\* remove changes the generation of no slot.  (The handle issued latest for
\* a slot is the one of greatest generation, each being one more than the one
\* before by this property.)
C14_GenerationBumpedOncePerReuse ==
    [][variant = "siv" =>
         /\ AddReturns =>
              LET k == last'.key
                  prior == {h.generation : h \in {i \in issued : i.id = k.id}}
              IN IF Len(siv'.index) > Len(siv.index)
                 THEN prior = {} /\ k.generation = 0
                 ELSE prior # {} /\ k.generation = Max(prior) + 1
         /\ last'.op = "remove" =>
              \A s \in 0..(Len(siv.index) - 1) :
                 SlotGeneration(siv', s) = SlotGeneration(siv, s)]_vars

\* add has just handed a slot out for the third time
C14_Witness ==
    /\ variant = "siv"
    /\ last.op = "add"
    /\ last.key.generation = 2

\* the step is a call of add made while a freed slot exists
AddReuses ==
    /\ AddReturns
    /\ Len(Index) > Len(Data)

\* C15, as stated: in both variants, when the slot table is longer than the
\* dense array, the slot number of the handle add returns equals the number
\* of live elements before the call.
C15_ReusedSlotIsLiveCount ==
    [][AddReuses => Slot(last'.key) = Len(Data)]_vars

\* C15, amended: in both variants, when the slot table is longer than the
\* dense array, add reuses the slot whose row sits at dense position
\* data.len(): the handle returned has slot number ids[data.len()], the slot
\* s with index[s] = data.len(), and index and ids are left as they were.
C15_ReusedSlotIsRowAtLiveCount ==
    [][AddReuses =>
         /\ Slot(last'.key) = At(Ids, Len(Data))
         /\ At(Index, Slot(last'.key)) = Len(Data)
         /\ Index' = Index
         /\ Ids' = Ids]_vars

\* add has just reused a slot whose number is not the number of elements
\* that were live before the call
C15_Witness ==
    /\ variant = "siv"
    /\ last.op = "add"
    /\ last.key.generation >= 1
    /\ last.key.id # Len(siv.data) - 1

\* C16: in both variants index.len() never decreases: remove and get leave
\* it unchanged, and add increases it by exactly 1 if and only if
\* index.len() = data.len() before the call, leaving it unchanged otherwise.
C16_SlotTableGrowsOnlyWhenFull ==
    [][/\ Len(Index') >= Len(Index)
       /\ last'.op \in {"remove", "get"} => Len(Index') = Len(Index)
       /\ AddReturns =>
            Len(Index') = IF Len(Index) = Len(Data) THEN Len(Index) + 1
                          ELSE Len(Index)]_vars

\* add has just reused the slot of a removed handle of the non-checking
\* variant, and a freed slot is still left
C16_Witness ==
    /\ variant = "fc"
    /\ last.op = "add"
    /\ last.key \in removed
    /\ Len(fc.index) > Len(fc.data)

\* C17: in both variants index and ids have the same length and are mutually
\* inverse permutations of 0..index.len() over the whole allocated range,
\* freed rows included.
C17_InversePermutations ==
    /\ Len(Index) = Len(Ids)
    /\ \A p \in 0..(Len(Ids) - 1) :
          /\ At(Ids, p) \in 0..(Len(Index) - 1)
          /\ At(Index, At(Ids, p)) = p
    /\ \A s \in 0..(Len(Index) - 1) :
          /\ At(Index, s) \in 0..(Len(Ids) - 1)
          /\ At(Ids, At(Index, s)) = s

\* a freed row past the live boundary holds a slot other than its position
C17_Witness ==
    /\ Len(Index) > Len(Data)
    /\ \E p \in Len(Data)..(Len(Index) - 1) : At(Ids, p) # p

\* C18: checking variant: after any sequence of add, remove, get and
\* iteration calls with arbitrary handles, generations.len() = ids.len() =
\* index.len(), every array index used by add, remove, data_index and
\* Iter::next is within bounds, remove's `data.len() - 1` is never evaluated
\* on an empty data array, and no operation panics.
C18_NoPanic ==
    variant = "siv" =>
        /\ Len(siv.generations) = Len(siv.ids)
        /\ Len(siv.ids) = Len(siv.index)
        /\ ~panicked
        /\ \A el \in Elems : ~SIV_add(siv, el).panic
        /\ \A key \in SIVKeys :
              /\ ~SIV_remove(siv, key).panic
              /\ SIV_remove(siv, key).ret # None => Len(siv.data) >= 1
        /\ \A position \in 0..Len(siv.data) :
              ~Iter_next([position |-> position], siv).panic

\* remove has just been called with a forged key, for a slot never
\* allocated, on a container that holds elements and has had some removed
C18_Witness ==
    /\ variant = "siv"
    /\ last.op = "remove"
    /\ last.key.id = Len(siv.index)
    /\ removed # {}
    /\ siv.data # << >>

\* C19: in both variants, when at least one slot is free, add reuses the slot
\* freed by the most recent successful remove among the slots still free,
\* not the one freed earliest.
C19_LastFreedFirstReused ==
    [][AddReuses =>
         /\ freed # << >>
         /\ Slot(last'.key) = freed[Len(freed)]]_vars

\* add has just reused a slot while a slot freed earlier is still free
C19_Witness ==
    /\ variant = "siv"
    /\ last.op = "add"
    /\ last.key.generation >= 1
    /\ Len(freed) = 1
    /\ freed[1] # last.key.id

\* ------------------------------------------- the two variants side by side
\* a StableIndexVec and a FastContainer, both empty, that are given the same
\* calls
InitLockStep ==
    /\ variant = "both"
    /\ siv = SIV_new
    /\ fc = FC_default
    /\ iter = None
    /\ yielded = << >>
    /\ panicked = FALSE
    /\ last = [op |-> "new"]
    /\ live = {}
    /\ issued = {}
    /\ removed = {}
    /\ nAdds = 0
    /\ nRemoves = 0
    /\ runRemoved = {}
    /\ runAdded = << >>
    /\ freed = << >>

\* add(el) on both containers; the caller keeps the two handles together
AddBoth ==
    /\ variant = "both" /\ ~panicked
    /\ nAdds < MaxAdds
    /\ Len(siv.data) = Len(siv.index) => Len(siv.index) < MaxSlots
    /\ Len(fc.data) = Len(fc.index) => Len(fc.index) < MaxSlots
    /\ \E el \in Elems :
         LET r == SIV_add(siv, el)
             q == FC_add(fc, el)
         IN
         IF r.panic \/ q.panic THEN Panic
         ELSE /\ siv' = r.c
              /\ fc' = q.c
              /\ last' = [op |-> "add", el |-> el, key |-> r.key[1],
                          fckey |-> q.key[1]]
              /\ live' = live \cup {[h |-> r.key[1], fh |-> q.key[1], el |-> el]}
              /\ issued' = issued \cup {r.key[1]}
              /\ nAdds' = nAdds + 1
              /\ UNCHANGED << variant, iter, yielded, panicked, removed, nRemoves,
                              runRemoved, runAdded, freed >>

\* remove on both containers of an element that is live, by the handle each
\* container returned for it
RemoveBoth ==
    /\ variant = "both" /\ ~panicked
    /\ \E l \in live :
         LET r == SIV_remove(siv, l.h)
             q == FC_remove(fc, l.fh)
         IN
         IF r.panic \/ q.panic THEN Panic
         ELSE /\ siv' = r.c
              /\ fc' = q.c
              /\ last' = [op |-> "remove", key |-> l.h, fckey |-> l.fh,
                          ret |-> r.ret, fcret |-> q.ret]
              /\ live' = live \ {l}
              /\ removed' = removed \cup {l.h}
              /\ nRemoves' = nRemoves + 1
              /\ UNCHANGED << variant, iter, yielded, panicked, issued, nAdds,
                              runRemoved, runAdded, freed >>

NextLockStep ==
    \/ AddBoth
    \/ RemoveBoth

SpecLockStep == InitLockStep /\ [][NextLockStep]_vars

\* C20: run side by side on the same sequence of add and remove calls that
\* only remove live handles, the checking and the non-checking variant stay
\* in lock-step: every add returns the same slot number in both, and their
\* index, ids and data arrays are equal after every step.
C20_LockStep ==
    variant = "both" =>
        /\ siv.index = fc.index
        /\ siv.ids = fc.ids
        /\ siv.data = fc.data
        /\ last.op = "add" => last.key.id = last.fckey
        /\ last.op = "remove" => last.ret = last.fcret

\* both containers have just reused a freed slot, with rows that swaps have
\* moved off their positions
C20_Witness ==
    /\ variant = "both"
    /\ last.op = "add"
    /\ last.key.generation >= 1
    /\ \E p \in 0..(Len(fc.ids) - 1) : At(fc.ids, p) # p

====
